---- MODULE Spec2Model ----
(***************************************************************************)
(* Virtual scrolling engine of the session viewer (tauri-app/src/app.js):  *)
(* offset table, visible window, incremental render with height            *)
(* measurement, coalesced recalculation, minimap and session switching.    *)
(***************************************************************************)
EXTENDS Integers, Sequences, FiniteSets, Bags, TLC

\* ---------------------------------------------------------------- constants
ESTIMATED_HEIGHT == 80
BUFFER_PX == 400
GAP == 16
\* literals of the code
DefaultViewport == 800
GateCount == 10
GatePercent == 5
SelectMargin == 100

\* ---------------------------------------------------------------- bounds
\* the number of events of a run: clicks, keys, scrolls and polls of the watcher
MaxEvents == 2
\* content.clientHeight of the rendering surface
ViewportHeight == 200
\* the 100 ms recalculation window, in clock ticks
RecalcTicks == 2

\* ---------------------------------------------------------------- environment
NoSession == 0
Sessions == {1, 2, 3}
\* sessions[0] of the session list
FirstSession == 1

\* the backend's answer to get_messages, oldest first
SessionLen(s) == CASE s = 1 -> 4 [] s = 2 -> 3 [] OTHER -> 0
BackendMessages(s) == [k \in 1..SessionLen(s) |-> 100 * s + k]

\* msg.offsetHeight of a rendered message under the current thinking mode;
\* 0 for a message the layout hides
RealHeight(id, thinking) ==
    CASE id = 101 -> 600
      [] id = 102 -> IF thinking THEN 900 ELSE 600
      [] id = 103 -> 40
      [] id = 104 -> 600
      [] id = 201 -> IF thinking THEN ESTIMATED_HEIGHT ELSE 40
      [] id = 202 -> IF thinking THEN 40 ELSE ESTIMATED_HEIGHT
      [] id = 203 -> IF thinking THEN ESTIMATED_HEIGHT ELSE 0
      [] OTHER -> ESTIMATED_HEIGHT

Max(a, b) == IF a > b THEN a ELSE b
Min(a, b) == IF a < b THEN a ELSE b
Abs(a) == IF a < 0 THEN -a ELSE a
Reverse(s) == [i \in 1..Len(s) |-> s[Len(s) + 1 - i]]

\* ---------------------------------------------------------------- offset model
\* variant: the cache is ignored, every message has the estimated height
HeightOfEstimateOnly(mh, id) == ESTIMATED_HEIGHT

\* messageHeights.get(id) || ESTIMATED_HEIGHT
HeightOf(mh, id) ==
    IF id \in DOMAIN mh /\ mh[id] # 0 THEN mh[id] ELSE ESTIMATED_HEIGHT

\* variant: the gap between consecutive messages is left out
RECURSIVE OffsetsFromNoGap(_, _, _, _)
OffsetsFromNoGap(msgs, mh, i, offset) ==
    IF i > Len(msgs) THEN << >>
    ELSE <<offset>> \o OffsetsFromNoGap(msgs, mh, i + 1, offset + HeightOf(mh, msgs[i]))

RECURSIVE OffsetsFrom(_, _, _, _)
OffsetsFrom(msgs, mh, i, offset) ==
    IF i > Len(msgs) THEN << >>
    ELSE <<offset>> \o OffsetsFrom(msgs, mh, i + 1, offset + HeightOf(mh, msgs[i]) + GAP)

RECURSIVE OffsetAfter(_, _, _, _)
OffsetAfter(msgs, mh, i, offset) ==
    IF i > Len(msgs) THEN offset
    ELSE OffsetAfter(msgs, mh, i + 1, offset + HeightOf(mh, msgs[i]) + GAP)

\* variant: the gap after the last message stays in the total
calculateOffsetsTrailingGap(s) ==
    IF Len(s.allMessages) = 0
    THEN [s EXCEPT !.messageOffsets = << >>, !.totalHeight = 0]
    ELSE [s EXCEPT
            !.messageOffsets = OffsetsFrom(s.allMessages, s.messageHeights, 1, 0),
            !.totalHeight = OffsetAfter(s.allMessages, s.messageHeights, 1, 0)]

\* variant: the new offsets are pushed onto the table as it is
calculateOffsetsAppend(s) ==
    IF Len(s.allMessages) = 0
    THEN [s EXCEPT !.messageOffsets = << >>, !.totalHeight = 0]
    ELSE [s EXCEPT
            !.messageOffsets = @ \o OffsetsFrom(s.allMessages, s.messageHeights, 1, 0),
            !.totalHeight = Max(0, OffsetAfter(s.allMessages, s.messageHeights, 1, 0) - GAP)]

\* calculateOffsets() on the engine state s: rebuilds messageOffsets and totalHeight
calculateOffsets(s) ==
    IF Len(s.allMessages) = 0
    THEN [s EXCEPT !.messageOffsets = << >>, !.totalHeight = 0]
    ELSE [s EXCEPT
            !.messageOffsets = OffsetsFrom(s.allMessages, s.messageHeights, 1, 0),
            !.totalHeight = Max(0, OffsetAfter(s.allMessages, s.messageHeights, 1, 0) - GAP)]

\* ---------------------------------------------------------------- visible window
\* indices are 0-based as in the code; sequences are 1-based
RECURSIVE SearchStart(_, _, _, _, _, _)
SearchStart(msgs, offs, mh, viewStart, lo, hi) ==
    IF lo > hi THEN lo
    ELSE LET mid == (lo + hi) \div 2
             msgBottom == offs[mid + 1] + HeightOf(mh, msgs[mid + 1])
         IN IF msgBottom < viewStart
            THEN SearchStart(msgs, offs, mh, viewStart, mid + 1, hi)
            ELSE SearchStart(msgs, offs, mh, viewStart, lo, mid - 1)

RECURSIVE SearchEnd(_, _, _, _)
SearchEnd(offs, viewEnd, lo, hi) ==
    IF lo > hi THEN hi
    ELSE LET mid == (lo + hi) \div 2
         IN IF offs[mid + 1] > viewEnd
            THEN SearchEnd(offs, viewEnd, lo, mid - 1)
            ELSE SearchEnd(offs, viewEnd, mid + 1, hi)

\* variant: the window is the span the two searches found, without the extra
\* message before it and the two after it
getVisibleRangeNoOverscan(s, scrollPos, containerHeight) ==
    IF Len(s.allMessages) = 0 THEN [start |-> 0, end |-> 0]
    ELSE LET n == Len(s.allMessages)
             viewStart == Max(0, scrollPos - BUFFER_PX)
             viewEnd == scrollPos + containerHeight + BUFFER_PX
             lo == SearchStart(s.allMessages, s.messageOffsets, s.messageHeights,
                               viewStart, 0, n - 1)
             hi == SearchEnd(s.messageOffsets, viewEnd, lo, n - 1)
         IN [start |-> Min(lo, n), end |-> Min(n, Max(hi, 0))]

\* variant: the window starts at the index the first search ends on
getVisibleRangeFromLo(s, scrollPos, containerHeight) ==
    IF Len(s.allMessages) = 0 THEN [start |-> 0, end |-> 0]
    ELSE LET n == Len(s.allMessages)
             viewStart == Max(0, scrollPos - BUFFER_PX)
             viewEnd == scrollPos + containerHeight + BUFFER_PX
             lo == SearchStart(s.allMessages, s.messageOffsets, s.messageHeights,
                               viewStart, 0, n - 1)
             hi == SearchEnd(s.messageOffsets, viewEnd, lo, n - 1)
         IN [start |-> lo, end |-> Min(n, hi + 2)]

getVisibleRange(s, scrollPos, containerHeight) ==
    IF Len(s.allMessages) = 0 THEN [start |-> 0, end |-> 0]
    ELSE LET n == Len(s.allMessages)
             viewStart == Max(0, scrollPos - BUFFER_PX)
             viewEnd == scrollPos + containerHeight + BUFFER_PX
             lo == SearchStart(s.allMessages, s.messageOffsets, s.messageHeights,
                               viewStart, 0, n - 1)
             start == Max(0, lo - 1)
             hi == SearchEnd(s.messageOffsets, viewEnd, start, n - 1)
         IN [start |-> start, end |-> Min(n, hi + 2)]

\* ---------------------------------------------------------------- state
VARIABLES
    currentSession,          \* session_id of currentSession, NoSession for null
    currentSessionData,      \* session_id its messages were fetched for, NoSession for null
    watchInterval,           \* session_id the polling interval was started for
    sortNewestFirst,
    showThinking,
    selectedMessageIndex,
    allMessages,             \* msg_ids in display order
    messageHeights,          \* msg_id -> measured height
    messageOffsets,
    totalHeight,
    visibleRange,
    heightRecalcTimeout,     \* TRUE when the variable holds a timer id
    lastMinimapHeight,
    lastMeasuredCount,
    minimapClickInProgress,
    minimapClickTimeout,     \* TRUE when the variable holds a timer id
    minimapNeedsRender,
    scrollRaf,               \* TRUE when a scroll frame callback is requested
    hasView,                 \* content holds the session view (.messages, .minimap)
    domMessages,             \* msg_ids of the .message elements in the document
    containerMinHeight,      \* min-height of .messages
    spacers,                 \* heights of the two .message-spacer elements
    scrollTop,               \* content.scrollTop
    viewportInd,             \* style of .minimap-viewport: the scroll state it shows
    canvas,                  \* what the minimap canvas was last painted from
    painted,                 \* renderMinimap drew on the canvas in the last step
    pending,                 \* bag of callbacks waiting: timers, frames, fetches
    sinceNotify,             \* ticks since the latest scheduleHeightRecalc call
    sinceFirst,              \* ticks since the call that started the pending timer
    events,                  \* user events so far
    clockRuns                \* the run tracks the time a recalculation timer waits

vars == <<currentSession, currentSessionData, watchInterval, sortNewestFirst,
          showThinking, selectedMessageIndex, allMessages, messageHeights,
          messageOffsets, totalHeight, visibleRange, heightRecalcTimeout,
          lastMinimapHeight, lastMeasuredCount, minimapClickInProgress,
          minimapClickTimeout, minimapNeedsRender, scrollRaf, hasView, domMessages,
          containerMinHeight, spacers, scrollTop, viewportInd, canvas, painted, pending,
          sinceNotify, sinceFirst, events, clockRuns>>

\* the module-level state as one record, so that functions compose as in the code
State ==
    [currentSession |-> currentSession, currentSessionData |-> currentSessionData,
     watchInterval |-> watchInterval, sortNewestFirst |-> sortNewestFirst,
     showThinking |-> showThinking, selectedMessageIndex |-> selectedMessageIndex,
     allMessages |-> allMessages, messageHeights |-> messageHeights,
     messageOffsets |-> messageOffsets, totalHeight |-> totalHeight,
     visibleRange |-> visibleRange, heightRecalcTimeout |-> heightRecalcTimeout,
     lastMinimapHeight |-> lastMinimapHeight, lastMeasuredCount |-> lastMeasuredCount,
     minimapClickInProgress |-> minimapClickInProgress,
     minimapClickTimeout |-> minimapClickTimeout,
     minimapNeedsRender |-> minimapNeedsRender, scrollRaf |-> scrollRaf,
     hasView |-> hasView, domMessages |-> domMessages,
     containerMinHeight |-> containerMinHeight, spacers |-> spacers,
     scrollTop |-> scrollTop,
     viewportInd |-> viewportInd, canvas |-> canvas, painted |-> FALSE,
     pending |-> pending, sinceNotify |-> sinceNotify, sinceFirst |-> sinceFirst,
     clockRuns |-> clockRuns]

Becomes(r) ==
    /\ currentSession' = r.currentSession
    /\ currentSessionData' = r.currentSessionData
    /\ watchInterval' = r.watchInterval
    /\ sortNewestFirst' = r.sortNewestFirst
    /\ showThinking' = r.showThinking
    /\ selectedMessageIndex' = r.selectedMessageIndex
    /\ allMessages' = r.allMessages
    /\ messageHeights' = r.messageHeights
    /\ messageOffsets' = r.messageOffsets
    /\ totalHeight' = r.totalHeight
    /\ visibleRange' = r.visibleRange
    /\ heightRecalcTimeout' = r.heightRecalcTimeout
    /\ lastMinimapHeight' = r.lastMinimapHeight
    /\ lastMeasuredCount' = r.lastMeasuredCount
    /\ minimapClickInProgress' = r.minimapClickInProgress
    /\ minimapClickTimeout' = r.minimapClickTimeout
    /\ minimapNeedsRender' = r.minimapNeedsRender
    /\ scrollRaf' = r.scrollRaf
    /\ hasView' = r.hasView
    /\ domMessages' = r.domMessages
    /\ containerMinHeight' = r.containerMinHeight
    /\ spacers' = r.spacers
    /\ scrollTop' = r.scrollTop
    /\ viewportInd' = r.viewportInd
    /\ canvas' = r.canvas
    /\ painted' = r.painted
    /\ pending' = r.pending
    /\ sinceNotify' = r.sinceNotify
    /\ sinceFirst' = r.sinceFirst
    /\ clockRuns' = r.clockRuns

EmptyMap == [id \in {} |-> 0]
Unset == [top |-> -1, height |-> -1, total |-> -1]
Blank == [height |-> 0, count |-> 0]
NoSpacers == [top |-> 0, bottom |-> 0]

\* a waiting callback: its kind, the session displayed when it was started, an argument
Callback(kind, tag, arg) == [kind |-> kind, tag |-> tag, arg |-> arg]
Add(b, t) == b (+) SetToBag({t})
Remove(b, t) == b (-) SetToBag({t})
Waiting(kind) == {t \in BagToSet(pending) : t.kind = kind}

\* ---------------------------------------------------------------- browser
\* the scrollable extent of content follows the min-height of .messages
ScrollMax(s) == Max(0, s.containerMinHeight - ViewportHeight)

\* variant: no guard, every scroll event requests a frame of its own
handleScrollUnguarded(s) ==
    [s EXCEPT !.scrollRaf = TRUE,
              !.pending = Add(@, Callback("scrollFrame", s.currentSessionData, 0))]

\* handleScroll(): the guard and the requestAnimationFrame
handleScroll(s) ==
    IF s.scrollRaf THEN s
    ELSE [s EXCEPT !.scrollRaf = TRUE,
                   !.pending = Add(@, Callback("scrollFrame", s.currentSessionData, 0))]

\* content.scrollTo({top}): the browser clamps and dispatches a scroll event on a change
scrollTo(s, top) ==
    LET t == Min(top, ScrollMax(s))
    IN IF t = s.scrollTop THEN s ELSE handleScroll([s EXCEPT !.scrollTop = t])

\* a layout change that shortens the extent moves scrollTop back into it
clampScroll(s) == scrollTo(s, s.scrollTop)

\* ---------------------------------------------------------------- recalculation
updateContainerHeight(s) ==
    IF ~s.hasView THEN s
    ELSE clampScroll([s EXCEPT !.containerMinHeight = s.totalHeight])

\* variant: a notification starts no timer
scheduleNothing(s) == s

\* variant: no guard, every notification starts a timer of its own
scheduleUnguarded(s) ==
    [s EXCEPT !.heightRecalcTimeout = TRUE,
              !.pending = Add(@, Callback("recalc", s.currentSessionData,
                                          IF s.clockRuns THEN RecalcTicks ELSE 0)),
              !.sinceNotify = 0,
              !.sinceFirst = IF s.heightRecalcTimeout THEN @ ELSE 0]

\* variant: a debounce, every notification restarts the window
scheduleDebounced(s) ==
    [s EXCEPT !.heightRecalcTimeout = TRUE,
              !.pending = Add([t \in {x \in DOMAIN @ : x.kind # "recalc"} |-> @[t]],
                              Callback("recalc", s.currentSessionData,
                                       IF s.clockRuns THEN RecalcTicks ELSE 0)),
              !.sinceNotify = 0,
              !.sinceFirst = IF s.heightRecalcTimeout THEN @ ELSE 0]

\* scheduleHeightRecalc(): the guard and the setTimeout
scheduleHeightRecalc(s) ==
    IF s.heightRecalcTimeout THEN [s EXCEPT !.sinceNotify = 0]
    ELSE [s EXCEPT !.heightRecalcTimeout = TRUE,
                   !.pending = Add(@, Callback("recalc", s.currentSessionData,
                                               IF s.clockRuns THEN RecalcTicks ELSE 0)),
                   !.sinceNotify = 0, !.sinceFirst = 0]

renderMinimap(s) ==
    IF ~s.hasView \/ Len(s.allMessages) = 0 THEN s
    ELSE LET s1 == IF Len(s.messageOffsets) # Len(s.allMessages)
                   THEN calculateOffsets(s) ELSE s
         IN [s1 EXCEPT !.canvas = [height |-> s1.totalHeight,
                                   count |-> Cardinality(DOMAIN s1.messageHeights)],
                       !.painted = TRUE]

updateMinimapViewport(s, scrollPos, containerHeight) ==
    IF ~s.hasView \/ s.totalHeight = 0 THEN s
    ELSE [s EXCEPT !.viewportInd =
            [top |-> scrollPos, height |-> containerHeight, total |-> s.totalHeight]]

\* the gate of the scheduled run: heightChanged || manyNewMeasured
shouldRenderMinimap(total, measuredCount, lastHeight, lastCount) ==
    \/ Abs(total - lastHeight) * 100 > lastHeight * GatePercent
    \/ measuredCount - lastCount > GateCount

\* variant: the run paints whether or not a minimap click is in progress
heightRecalcCallbackNoHold(s) ==
    LET s1 == updateContainerHeight(
                  calculateOffsets([s EXCEPT !.heightRecalcTimeout = FALSE]))
        measuredCount == Cardinality(DOMAIN s1.messageHeights)
        should == shouldRenderMinimap(s1.totalHeight, measuredCount,
                                      s1.lastMinimapHeight, s1.lastMeasuredCount)
    IN updateMinimapViewport(
           IF should
           THEN renderMinimap([s1 EXCEPT !.lastMinimapHeight = s1.totalHeight,
                                         !.lastMeasuredCount = measuredCount])
           ELSE s1,
           s1.scrollTop, ViewportHeight)

\* variant: the run ends the waiting and leaves the table as it is
heightRecalcCallbackKeepTable(s) ==
    updateMinimapViewport([s EXCEPT !.heightRecalcTimeout = FALSE],
                          s.scrollTop, ViewportHeight)

\* the callback scheduleHeightRecalc passes to setTimeout
heightRecalcCallback(s) ==
    LET s1 == updateContainerHeight(
                  calculateOffsets([s EXCEPT !.heightRecalcTimeout = FALSE]))
        measuredCount == Cardinality(DOMAIN s1.messageHeights)
        should == shouldRenderMinimap(s1.totalHeight, measuredCount,
                                      s1.lastMinimapHeight, s1.lastMeasuredCount)
    IN IF s1.minimapClickInProgress
       THEN updateMinimapViewport(
                IF should THEN [s1 EXCEPT !.minimapNeedsRender = TRUE] ELSE s1,
                s1.scrollTop, ViewportHeight)
       ELSE updateMinimapViewport(
                IF should
                THEN renderMinimap([s1 EXCEPT !.lastMinimapHeight = s1.totalHeight,
                                              !.lastMeasuredCount = measuredCount])
                ELSE s1,
                s1.scrollTop, ViewportHeight)

\* ---------------------------------------------------------------- renderer
\* variant: every rendered message with a height counts as changed
RemeasuredAlways(mh, ids, thinking) == {id \in ids : RealHeight(id, thinking) > 0}

\* the ids among those rendered whose measured height the cache does not hold
Remeasured(mh, ids, thinking) ==
    {id \in ids : /\ RealHeight(id, thinking) > 0
                  /\ (id \notin DOMAIN mh \/ mh[id] # RealHeight(id, thinking))}

\* messageHeights.set(id, offsetHeight) for every rendered id with a height > 0
measure(mh, ids, thinking) ==
    LET hit == {id \in ids : RealHeight(id, thinking) > 0}
    IN [id \in DOMAIN mh \cup hit |->
            IF id \in hit THEN RealHeight(id, thinking) ELSE mh[id]]

\* const topSpacer: messageOffsets[start], 0 at the top or without an entry
topSpacer(s, start) ==
    IF start > 0 /\ start < Len(s.messageOffsets) THEN s.messageOffsets[start + 1] ELSE 0

\* let bottomSpacer: what the table leaves below the last rendered message
\* variant: the gap after the last rendered message is not taken off
bottomSpacerNoGap(s, end) ==
    IF end < Len(s.allMessages) /\ end > 0
    THEN LET lastOffset == IF end <= Len(s.messageOffsets) THEN s.messageOffsets[end] ELSE 0
             lastHeight == HeightOf(s.messageHeights, s.allMessages[end])
         IN Max(0, s.totalHeight - lastOffset - lastHeight)
    ELSE 0

bottomSpacer(s, end) ==
    IF end < Len(s.allMessages) /\ end > 0
    THEN LET lastOffset == IF end <= Len(s.messageOffsets)
                           THEN s.messageOffsets[end] ELSE 0
             lastHeight == HeightOf(s.messageHeights, s.allMessages[end])
         IN Max(0, s.totalHeight - lastOffset - lastHeight - GAP)
    ELSE 0

\* variant: the render recomputes the table itself after measuring
renderVisibleMessagesSync(s) ==
    IF ~s.hasView THEN s
    ELSE LET n == Len(s.allMessages)
             start == Max(0, Min(s.visibleRange.start, n))
             end == Max(start, Min(s.visibleRange.end, n))
         IN IF start >= end \/ n = 0
            THEN [s EXCEPT !.domMessages = {}, !.spacers = NoSpacers]
            ELSE LET ids == {s.allMessages[i] : i \in (start + 1)..end}
                 IN calculateOffsets(
                        [s EXCEPT !.domMessages = ids,
                                  !.spacers = [top |-> topSpacer(s, start),
                                               bottom |-> bottomSpacer(s, end)],
                                  !.messageHeights = measure(@, ids, s.showThinking)])

renderVisibleMessages(s) ==
    IF ~s.hasView THEN s
    ELSE LET n == Len(s.allMessages)
             start == Max(0, Min(s.visibleRange.start, n))
             end == Max(start, Min(s.visibleRange.end, n))
         IN IF start >= end \/ n = 0
            THEN [s EXCEPT !.domMessages = {}, !.spacers = NoSpacers]
            ELSE LET ids == {s.allMessages[i] : i \in (start + 1)..end}
                     heightsChanged ==
                         Remeasured(s.messageHeights, ids, s.showThinking) # {}
                     s1 == [s EXCEPT !.domMessages = ids,
                                     !.spacers = [top |-> topSpacer(s, start),
                                                  bottom |-> bottomSpacer(s, end)],
                                     !.messageHeights = measure(@, ids, s.showThinking)]
                 IN IF heightsChanged THEN scheduleHeightRecalc(s1) ELSE s1

\* the frame callback of handleScroll
scrollFrame(s) ==
    LET s0 == [s EXCEPT !.scrollRaf = FALSE]
        newRange == getVisibleRange(s0, s0.scrollTop, ViewportHeight)
        s1 == IF newRange # s0.visibleRange
              THEN renderVisibleMessages([s0 EXCEPT !.visibleRange = newRange])
              ELSE s0
    IN updateMinimapViewport(s1, s0.scrollTop, ViewportHeight)

\* ---------------------------------------------------------------- minimap click
\* the settle timer minimapClickTimeout refers to has arg 1, any other has arg 0
IsHeld(t) == t.kind = "settle" /\ t.arg = 1
Unheld(t) == IF IsHeld(t) THEN [t EXCEPT !.arg = 0] ELSE t
Copies(b, t) == IF t \in DOMAIN b THEN b[t] ELSE 0

\* the variable is overwritten or nulled: a timer it referred to stays scheduled
Release(b) ==
    [t \in {Unheld(x) : x \in DOMAIN b} |->
        IF t.kind = "settle"
        THEN Copies(b, t) + Copies(b, [t EXCEPT !.arg = 1])
        ELSE b[t]]

\* the bag without the recalculation timers
clearRecalc(b) == [t \in {x \in DOMAIN b : x.kind # "recalc"} |-> b[t]]

\* clearTimeout(minimapClickTimeout)
clearClickTimeout(b) == [t \in {x \in DOMAIN b : ~IsHeld(x)} |-> b[t]]

\* handleMinimapClick(e) with e.clientY at p percent of the minimap's height
handleMinimapClick(s, p) ==
    IF ~s.hasView THEN s
    ELSE LET target == (p * Max(s.totalHeight, 1)) \div 100
                           - ViewportHeight \div 2
             s1 == IF s.minimapClickTimeout
                   THEN [s EXCEPT !.pending = clearClickTimeout(@)] ELSE s
             s2 == scrollTo([s1 EXCEPT !.minimapClickInProgress = TRUE], Max(0, target))
         IN [s2 EXCEPT !.pending = Add(@, Callback("clickFrame", s.currentSessionData, 0))]

\* the frame callback of handleMinimapClick
clickFrame(s) ==
    LET s1 == renderVisibleMessages(
                  [s EXCEPT !.visibleRange = getVisibleRange(s, s.scrollTop, ViewportHeight)])
        s2 == updateMinimapViewport(s1, s1.scrollTop, ViewportHeight)
    IN [s2 EXCEPT !.minimapClickTimeout = TRUE,
                  !.pending = Add(Release(@), Callback("settle", s.currentSessionData, 1))]

\* variant: the settle callback drops a recorded repaint
clickSettleDiscard(s) ==
    [s EXCEPT !.minimapClickInProgress = FALSE,
              !.minimapClickTimeout = FALSE,
              !.minimapNeedsRender = FALSE,
              !.pending = Release(@)]

\* the settle callback of handleMinimapClick
clickSettle(s) ==
    LET s1 == [s EXCEPT !.minimapClickInProgress = FALSE,
                        !.minimapClickTimeout = FALSE,
                        !.pending = Release(@)]
    IN IF s1.minimapNeedsRender
       THEN renderMinimap([s1 EXCEPT !.minimapNeedsRender = FALSE,
                                     !.lastMinimapHeight = s1.totalHeight,
                                     !.lastMeasuredCount =
                                         Cardinality(DOMAIN s1.messageHeights)])
       ELSE s1

\* ---------------------------------------------------------------- session, selection
\* variant: the height cache of the previous render is kept
renderSessionKeepCache(s) ==
    LET messages == BackendMessages(s.currentSessionData)
        s1 == calculateOffsets(
                  [s EXCEPT !.allMessages = IF s.sortNewestFirst
                                            THEN Reverse(messages) ELSE messages,
                            !.selectedMessageIndex = -1,
                            !.messageOffsets = << >>,
                            !.lastMinimapHeight = 0,
                            !.lastMeasuredCount = 0])
        s2 == [s1 EXCEPT !.visibleRange =
                  getVisibleRange(s1, 0, IF ViewportHeight # 0 THEN ViewportHeight
                                         ELSE DefaultViewport)]
        s3 == clampScroll([s2 EXCEPT !.hasView = TRUE, !.domMessages = {},
                                     !.spacers = NoSpacers,
                                     !.containerMinHeight = s2.totalHeight,
                                     !.viewportInd = Unset, !.canvas = Blank])
        s4 == renderVisibleMessages(s3)
    IN [s4 EXCEPT !.pending = Add(@, Callback("postLoad", s.currentSessionData, 0))]

\* variant: the selection survives the new message sequence
renderSessionKeepSelection(s) ==
    LET messages == BackendMessages(s.currentSessionData)
        s1 == calculateOffsets(
                  [s EXCEPT !.allMessages = IF s.sortNewestFirst
                                            THEN Reverse(messages) ELSE messages,
                            !.messageHeights = EmptyMap,
                            !.messageOffsets = << >>,
                            !.lastMinimapHeight = 0,
                            !.lastMeasuredCount = 0])
        s2 == [s1 EXCEPT !.visibleRange =
                  getVisibleRange(s1, 0, IF ViewportHeight # 0 THEN ViewportHeight
                                         ELSE DefaultViewport)]
        s3 == clampScroll([s2 EXCEPT !.hasView = TRUE, !.domMessages = {},
                                     !.spacers = NoSpacers,
                                     !.containerMinHeight = s2.totalHeight,
                                     !.viewportInd = Unset, !.canvas = Blank])
        s4 == renderVisibleMessages(s3)
    IN [s4 EXCEPT !.pending = Add(@, Callback("postLoad", s.currentSessionData, 0))]

\* renderSession(data), data.session being currentSessionData
renderSession(s) ==
    LET messages == BackendMessages(s.currentSessionData)
        s1 == calculateOffsets(
                  [s EXCEPT !.allMessages = IF s.sortNewestFirst
                                            THEN Reverse(messages) ELSE messages,
                            !.selectedMessageIndex = -1,
                            !.messageHeights = EmptyMap,
                            !.messageOffsets = << >>,
                            !.lastMinimapHeight = 0,
                            !.lastMeasuredCount = 0])
        s2 == [s1 EXCEPT !.visibleRange =
                  getVisibleRange(s1, 0, IF ViewportHeight # 0 THEN ViewportHeight
                                         ELSE DefaultViewport)]
        \* content.innerHTML: a new .messages, canvas and viewport indicator
        s3 == clampScroll([s2 EXCEPT !.hasView = TRUE, !.domMessages = {},
                                     !.spacers = NoSpacers,
                                     !.containerMinHeight = s2.totalHeight,
                                     !.viewportInd = Unset, !.canvas = Blank])
        s4 == renderVisibleMessages(s3)
    IN [s4 EXCEPT !.pending = Add(@, Callback("postLoad", s.currentSessionData, 0))]

\* the 50 ms callback of renderSession
postLoad(s) ==
    LET s1 == renderMinimap(updateContainerHeight(calculateOffsets(s)))
    IN updateMinimapViewport(s1, s1.scrollTop, ViewportHeight)

\* variant: the flag flips and nothing is rendered again
toggleSortFlagOnly(s) == [s EXCEPT !.sortNewestFirst = ~@]

toggleSort(s) ==
    LET s1 == [s EXCEPT !.sortNewestFirst = ~@]
    IN IF s1.currentSessionData # NoSession THEN renderSession(s1) ELSE s1

toggleThinking(s) ==
    [s EXCEPT !.showThinking = ~@,
              !.messageHeights = EmptyMap,
              !.pending = Add(@, Callback("thinking", s.currentSessionData, 0))]

\* the 50 ms callback of toggleThinking
thinkingSettled(s) ==
    LET s1 == renderMinimap(calculateOffsets(
                  [s EXCEPT !.messageHeights = measure(@, s.domMessages, s.showThinking)]))
    IN updateMinimapViewport(s1, s1.scrollTop, ViewportHeight)

\* variant: the selection always scrolls to the message
selectMessageAlwaysScroll(s, i) ==
    IF Len(s.allMessages) = 0 THEN s
    ELSE LET index == Max(0, Min(i, Len(s.allMessages) - 1))
             msgOffset == s.messageOffsets[index + 1]
         IN scrollTo([s EXCEPT !.selectedMessageIndex = index],
                     Max(0, msgOffset - SelectMargin))

selectMessage(s, i) ==
    IF Len(s.allMessages) = 0 THEN s
    ELSE LET index == Max(0, Min(i, Len(s.allMessages) - 1))
             msgOffset == s.messageOffsets[index + 1]
             msgHeight == HeightOf(s.messageHeights, s.allMessages[index + 1])
             isVisible == /\ msgOffset >= s.scrollTop
                          /\ msgOffset + msgHeight <= s.scrollTop + ViewportHeight
             s1 == [s EXCEPT !.selectedMessageIndex = index]
         IN IF isVisible THEN s1 ELSE scrollTo(s1, Max(0, msgOffset - SelectMargin))

\* variant: without a selection both directions start at the first message
navigateMessagesFromTop(s, direction) ==
    IF Len(s.allMessages) = 0 THEN s
    ELSE IF s.selectedMessageIndex = -1
         THEN selectMessage(s, 0)
         ELSE selectMessage(s, s.selectedMessageIndex + direction)

navigateMessages(s, direction) ==
    IF Len(s.allMessages) = 0 THEN s
    ELSE IF s.selectedMessageIndex = -1
         THEN selectMessage(s, IF direction > 0 THEN 0 ELSE Len(s.allMessages) - 1)
         ELSE selectMessage(s, s.selectedMessageIndex + direction)

\* variant: the view is emptied before the messages are fetched
loadSessionClearFirst(s, id, scrollToMsg) ==
    [s EXCEPT !.currentSession = id,
              !.allMessages = << >>,
              !.messageHeights = EmptyMap,
              !.selectedMessageIndex = -1,
              !.pending = Add(@, Callback("fetch", id, scrollToMsg))]

\* loadSession(id, scrollToMsg) up to the await
loadSession(s, id, scrollToMsg) ==
    [s EXCEPT !.currentSession = id,
              !.pending = Add(@, Callback("fetch", id, scrollToMsg))]

\* loadSession after fetchMessages resolved
loadSessionResume(s, f) ==
    LET s1 == renderSession([s EXCEPT !.currentSessionData = f.tag])
        s2 == [s1 EXCEPT !.watchInterval = f.tag]
    IN IF f.arg # 0
       THEN [s2 EXCEPT !.pending = Add(@, Callback("scrollToMsg", f.tag, f.arg))]
       ELSE s2

\* the setInterval callback of startWatching up to its first await
watchTick(s) ==
    [s EXCEPT !.pending = Add(@, Callback("watchCheck", s.watchInterval, 0))]

\* check_session_update answered: the guard, then sync_session and fetchMessages
watchChecked(s, t, updated) ==
    IF updated /\ s.currentSession # NoSession /\ s.currentSession = t.tag
    THEN [s EXCEPT !.pending = Add(@, Callback("watchFetch", t.tag, 0))]
    ELSE s

\* fetchMessages(sessionId) answered inside the interval callback
watchFetched(s, t) == renderSession([s EXCEPT !.currentSessionData = t.tag])

IndexOf(msgs, id) ==
    IF \E i \in 1..Len(msgs) : msgs[i] = id
    THEN (CHOOSE i \in 1..Len(msgs) : msgs[i] = id /\ \A j \in 1..(i - 1) : msgs[j] # id) - 1
    ELSE -1

\* the 100 ms callback of loadSession
scrollToMsgCallback(s, t) ==
    LET msgIndex == IndexOf(s.allMessages, t.arg)
    IN IF msgIndex >= 0 THEN selectMessage(s, msgIndex) ELSE s

\* ---------------------------------------------------------------- actions
\* the state at the first await of the start-up code: loadSessions() is done and
\* loadSession(sessions[0].session_id) waits for fetchMessages
Start ==
    /\ currentSession = FirstSession
    /\ currentSessionData = NoSession
    /\ watchInterval = NoSession
    /\ sortNewestFirst = TRUE
    /\ showThinking = FALSE
    /\ selectedMessageIndex = -1
    /\ allMessages = << >>
    /\ messageHeights = EmptyMap
    /\ messageOffsets = << >>
    /\ totalHeight = 0
    /\ visibleRange = [start |-> 0, end |-> 20]
    /\ heightRecalcTimeout = FALSE
    /\ lastMinimapHeight = 0
    /\ lastMeasuredCount = 0
    /\ minimapClickInProgress = FALSE
    /\ minimapClickTimeout = FALSE
    /\ minimapNeedsRender = FALSE
    /\ scrollRaf = FALSE
    /\ hasView = FALSE
    /\ domMessages = {}
    /\ containerMinHeight = 0
    /\ spacers = NoSpacers
    /\ scrollTop = 0
    /\ viewportInd = Unset
    /\ canvas = Blank
    /\ painted = FALSE
    /\ pending = SetToBag({Callback("fetch", FirstSession, 0)})
    /\ sinceNotify = 0
    /\ sinceFirst = 0
    /\ events = 0

Init == Start /\ clockRuns = FALSE

\* the same start, with the clock of the recalculation timer running
TimedInit == Start /\ clockRuns = TRUE

\* a user event: the handler runs on the state as it is
UserEvent(r) ==
    /\ events < MaxEvents
    /\ events' = events + 1
    /\ Becomes(r)

\* a timer, a frame or a fetch completes
Completion(r) ==
    /\ events' = events
    /\ Becomes(r)

Fired(t) == [State EXCEPT !.pending = Remove(@, t)]

\* a click on a session item, or on a search result naming a message of the session
LoadSession(id, scrollToMsg) ==
    UserEvent(loadSession(State, id, scrollToMsg))

FetchResolved(f) ==
    /\ f \in Waiting("fetch")
    /\ Completion(loadSessionResume(Fired(f), f))

\* fetchMessages rejects: loadSession ends at the await
FetchRejected(f) ==
    /\ f \in Waiting("fetch")
    /\ Completion(Fired(f))

ToggleSort ==
    UserEvent(toggleSort(State))

ToggleThinking ==
    UserEvent(toggleThinking(State))

ThinkingTimer(t) ==
    /\ t \in Waiting("thinking")
    /\ Completion(thinkingSettled(Fired(t)))

PostLoadTimer(t) ==
    /\ t \in Waiting("postLoad")
    /\ Completion(postLoad(Fired(t)))

\* the user scrolls the content to one of a few positions within its extent
ScrollStops == {0, ScrollMax(State)}

Scroll(pos) ==
    /\ hasView
    /\ pos # scrollTop
    /\ UserEvent(handleScroll([State EXCEPT !.scrollTop = pos]))

ScrollFrame ==
    \E t \in Waiting("scrollFrame") : Completion(scrollFrame(Fired(t)))

\* the minimap is clicked at its top, its middle or its bottom
ClickPercents == {0, 50, 100}

MinimapClick(p) ==
    /\ hasView
    /\ UserEvent(handleMinimapClick(State, p))

ClickFrame(t) ==
    /\ t \in Waiting("clickFrame")
    /\ Completion(clickFrame(Fired(t)))

ClickSettle(t) ==
    /\ t \in Waiting("settle")
    /\ Completion(clickSettle(Fired(t)))

\* the 100 ms timer of scheduleHeightRecalc expires
RecalcTimer(t) ==
    /\ t \in Waiting("recalc")
    /\ t.arg = 0
    /\ Completion(heightRecalcCallback(
           [Fired(t) EXCEPT !.sinceNotify = 0, !.sinceFirst = 0]))

\* time passes while a recalculation timer runs
Elapse(b) ==
    [t \in {IF x.kind = "recalc" THEN [x EXCEPT !.arg = @ - 1] ELSE x : x \in DOMAIN b} |->
        IF t.kind = "recalc" THEN b[[t EXCEPT !.arg = @ + 1]] ELSE b[t]]

Tick ==
    /\ Waiting("recalc") # {}
    /\ \A t \in Waiting("recalc") : t.arg > 0
    /\ Completion([State EXCEPT !.pending = Elapse(@),
                             !.sinceNotify = Min(@ + 1, RecalcTicks),
                             !.sinceFirst = Min(@ + 1, RecalcTicks + 1)])

\* ArrowDown / j, ArrowUp / k
NavigateMessages(direction) ==
    UserEvent(navigateMessages(State, direction))

\* a click on a rendered message: selectMessage(parseInt(msg.dataset.index))
ClickMessage(i) ==
    /\ hasView
    /\ i < Len(allMessages)
    /\ allMessages[i + 1] \in domMessages
    /\ UserEvent(selectMessage(State, i))

ScrollToMsgTimer(t) ==
    /\ t \in Waiting("scrollToMsg")
    /\ Completion(scrollToMsgCallback(Fired(t), t))

\* the polling interval of startWatching fires
WatchTick ==
    /\ watchInterval # NoSession
    /\ UserEvent(watchTick(State))

WatchChecked(t, updated) ==
    /\ t \in Waiting("watchCheck")
    /\ Completion(watchChecked(Fired(t), t, updated))

WatchFetched(t) ==
    /\ t \in Waiting("watchFetch")
    /\ Completion(watchFetched(Fired(t), t))

\* sync_session or fetchMessages rejects: the catch of the interval callback
WatchFailed(t) ==
    /\ t \in Waiting("watchFetch")
    /\ Completion(Fired(t))

\* the search result the model offers names the oldest message of session 1
Targets(id) == IF id = 1 THEN {0, BackendMessages(1)[1]} ELSE {0}

Next ==
    \/ \E id \in Sessions : \E m \in Targets(id) : LoadSession(id, m)
    \/ \E f \in BagToSet(pending) : FetchResolved(f)
    \/ \E f \in BagToSet(pending) : FetchRejected(f)
    \/ ToggleSort
    \/ ToggleThinking
    \/ \E t \in BagToSet(pending) : ThinkingTimer(t)
    \/ \E t \in BagToSet(pending) : PostLoadTimer(t)
    \/ \E pos \in ScrollStops : Scroll(pos)
    \/ ScrollFrame
    \/ \E p \in ClickPercents : MinimapClick(p)
    \/ \E t \in BagToSet(pending) : ClickFrame(t)
    \/ \E t \in BagToSet(pending) : ClickSettle(t)
    \/ \E t \in BagToSet(pending) : RecalcTimer(t)
    \/ \E d \in {-1, 1} : NavigateMessages(d)
    \/ \E t \in BagToSet(pending) : ScrollToMsgTimer(t)
    \/ \E i \in 0..(Len(allMessages) - 1) : ClickMessage(i)
    \/ WatchTick
    \/ \E t \in BagToSet(pending) : \E updated \in BOOLEAN : WatchChecked(t, updated)
    \/ \E t \in BagToSet(pending) : WatchFetched(t)
    \/ \E t \in BagToSet(pending) : WatchFailed(t)

Spec == Init /\ [][Next]_vars

TimedNext == Next \/ Tick

TimedSpec == TimedInit /\ [][TimedNext]_vars

\* the browser runs every requested frame and every expired timer: weak fairness
\* of the frame and settle callbacks of a minimap click, written out as
\* []<>~ENABLED <<A>>_vars \/ []<><<A>>_vars with the enabling condition of each
\* callback stated directly (a waiting callback can run, and its run takes it out
\* of pending)
FrameFair ==
    \/ []<>(Waiting("clickFrame") = {})
    \/ []<><<\E t \in BagToSet(pending) : ClickFrame(t)>>_vars
SettleFair ==
    \/ []<>(Waiting("settle") = {})
    \/ []<><<\E t \in BagToSet(pending) : ClickSettle(t)>>_vars

FairSpec == Spec /\ FrameFair /\ SettleFair

\* an expired timer runs: weak fairness of the recalculation timer and of the 50 ms
\* timer of toggleThinking, written out in the same way
RecalcFair ==
    \/ []<>(Waiting("recalc") = {})
    \/ []<><<\E t \in BagToSet(pending) : RecalcTimer(t)>>_vars
ThinkingFair ==
    \/ []<>(Waiting("thinking") = {})
    \/ []<><<\E t \in BagToSet(pending) : ThinkingTimer(t)>>_vars

DriftSpec == Spec /\ RecalcFair /\ ThinkingFair

\* ---------------------------------------------------------------- resolving a window
\* the scroll positions around the edges of the message bands and of the buffer
ProbeDeltas == {-BUFFER_PX - 1, -BUFFER_PX, -1, 0, 1, BUFFER_PX, BUFFER_PX + 1}
Edges(msgs, offs, mh) ==
    {offs[i] : i \in 1..Len(offs)} \cup
    {offs[i] + HeightOf(mh, msgs[i]) : i \in 1..Len(offs)}
ProbePositions(msgs, offs, mh) ==
    {0} \cup {Max(0, e + d - v) : e \in Edges(msgs, offs, mh), d \in ProbeDeltas,
                                  v \in {0, ViewportHeight}}

\* any session in either order with any part of it measured, the offset table just
\* recomputed, the view scrolled anywhere and a scroll frame requested
ResolveInit ==
    \E id \in Sessions, newestFirst \in BOOLEAN, thinking \in BOOLEAN :
      \E measured \in SUBSET {BackendMessages(id)[k] : k \in 1..SessionLen(id)} :
        LET msgs == IF newestFirst THEN Reverse(BackendMessages(id))
                    ELSE BackendMessages(id)
            mh == measure(EmptyMap, measured, thinking)
            table == calculateOffsets([allMessages |-> msgs, messageHeights |-> mh,
                                       messageOffsets |-> << >>, totalHeight |-> 0])
        IN /\ currentSession = id
           /\ currentSessionData = id
           /\ watchInterval = id
           /\ sortNewestFirst = newestFirst
           /\ showThinking = thinking
           /\ selectedMessageIndex = -1
           /\ allMessages = msgs
           /\ messageHeights = mh
           /\ messageOffsets = table.messageOffsets
           /\ totalHeight = table.totalHeight
           /\ visibleRange = [start |-> 0, end |-> 0]
           /\ heightRecalcTimeout = FALSE
           /\ lastMinimapHeight = 0
           /\ lastMeasuredCount = 0
           /\ minimapClickInProgress = FALSE
           /\ minimapClickTimeout = FALSE
           /\ minimapNeedsRender = FALSE
           /\ scrollRaf = TRUE
           /\ hasView = TRUE
           /\ domMessages = {}
           /\ containerMinHeight = table.totalHeight
           /\ spacers = NoSpacers
           /\ scrollTop \in ProbePositions(msgs, table.messageOffsets, mh)
           /\ viewportInd = Unset
           /\ canvas = Blank
           /\ painted = FALSE
           /\ pending = SetToBag({Callback("scrollFrame", id, 0)})
           /\ sinceNotify = 0
           /\ sinceFirst = 0
           /\ events = 0
           /\ clockRuns = FALSE

ResolveSpec == ResolveInit /\ [][ScrollFrame]_vars

\* ---------------------------------------------------------------- properties
\* height(i) of the specification: the cached height if present, else the estimate
CachedOrEstimate(mh, id) == IF id \in DOMAIN mh THEN mh[id] ELSE ESTIMATED_HEIGHT
Recomputed == calculateOffsets(State)
Fresh ==
    /\ messageOffsets = Recomputed.messageOffsets
    /\ totalHeight = Recomputed.totalHeight
RecalcWaiting == Waiting("recalc")
RecalcDue == \E t \in RecalcWaiting : t.arg = 0
RecalcRuns == \E t \in BagToSet(pending) : RecalcTimer(t)

\* C1: whatever sequence and height cache the program holds, the table
\* calculateOffsets builds from them starts at 0 and each next offset is the
\* previous one plus the cached height (the estimate 80 when not cached) plus GAP
C1_OffsetsAccumulate ==
    LET offs == Recomputed.messageOffsets
    IN Len(allMessages) > 0 =>
         /\ Len(offs) = Len(allMessages)
         /\ offs[1] = 0
         /\ \A i \in 1..(Len(offs) - 1) :
               offs[i + 1] - offs[i] = CachedOrEstimate(messageHeights, allMessages[i]) + GAP

\* a stored table, just recomputed by the scheduled run, over a sequence with both
\* measured and unmeasured messages
C1_Witness ==
    /\ Fresh
    /\ Len(allMessages) > 2
    /\ \E i \in 1..Len(allMessages) : allMessages[i] \notin DOMAIN messageHeights
    /\ \E i \in 1..Len(allMessages) :
          /\ allMessages[i] \in DOMAIN messageHeights
          /\ messageHeights[allMessages[i]] # ESTIMATED_HEIGHT
    /\ lastMinimapHeight = totalHeight

\* C2: the total calculateOffsets stores is the last offset plus the last height
\* (no trailing gap), 0 for the empty sequence, and never negative
C2_TotalHeight ==
    LET r == Recomputed
        n == Len(allMessages)
    IN /\ r.totalHeight >= 0
       /\ n = 0 => r.totalHeight = 0
       /\ n > 0 => r.totalHeight =
              r.messageOffsets[n] + CachedOrEstimate(messageHeights, allMessages[n])

C2_Witness ==
    /\ Fresh
    /\ Len(allMessages) > 2
    /\ totalHeight > Len(allMessages) * (ESTIMATED_HEIGHT + GAP)
    /\ containerMinHeight = totalHeight

\* the window covers every message whose band meets the viewport
Covers(range, msgs, offs, mh, pos, height) ==
    \A i \in 0..(Len(msgs) - 1) :
        (/\ offs[i + 1] <= pos + height
         /\ offs[i + 1] + CachedOrEstimate(mh, msgs[i + 1]) >= pos)
        => (range.start <= i /\ i < range.end)

\* C3: with the table as calculateOffsets produced it, the window getVisibleRange
\* returns for any scroll position and viewport height contains every message
\* whose band [offset, offset + height] meets [scrollTop, scrollTop + viewport]
C3_WindowCoversViewport ==
    (Fresh /\ scrollRaf /\ Len(allMessages) > 0) =>
        \A height \in {0, ViewportHeight, DefaultViewport} :
            Covers(getVisibleRange(State, scrollTop, height), allMessages,
                   messageOffsets, messageHeights, scrollTop, height)

\* a scroll frame resolved a window that leaves the first messages out and
\* rendered exactly that window
C3_Witness ==
    /\ ~scrollRaf
    /\ visibleRange.start > 0
    /\ scrollTop > BUFFER_PX
    /\ domMessages = {allMessages[i] : i \in (visibleRange.start + 1)..visibleRange.end}

\* the handlers that read messageOffsets or totalHeight
ReadsTable ==
    \/ ScrollFrame
    \/ \E p \in ClickPercents : MinimapClick(p)
    \/ \E t \in BagToSet(pending) : ClickFrame(t)
    \/ \E t \in BagToSet(pending) : ClickSettle(t) /\ minimapNeedsRender
    \/ \E d \in {-1, 1} : NavigateMessages(d) /\ Len(allMessages) > 0
    \/ \E t \in BagToSet(pending) : ScrollToMsgTimer(t)

\* C4 as stated: whenever a handler reads the table, the table is what
\* calculateOffsets would produce from the current sequence and height cache
C4_FreshWhenRead == [][ReadsTable => Fresh]_vars

\* C4 as the code has it: the table may be read stale after a height-cache
\* mutation, but whenever it differs from what calculateOffsets would produce a
\* recalculation is waiting (the scheduled run or the timer of toggleThinking)
C4_StaleHasRecalcWaiting ==
    Fresh \/ RecalcWaiting # {} \/ Waiting("thinking") # {}

\* a scroll frame is about to resolve a window against a stale table
C4_Witness ==
    /\ ~Fresh
    /\ scrollRaf
    /\ RecalcWaiting # {}
    /\ Waiting("thinking") = {}

\* C5: notifications are coalesced: at most one recalculation timer waits, it is
\* the one heightRecalcTimeout holds, and the step that ends a waiting window is one
\* run that leaves the table recomputed and the container's min-height updated
C5_OneTimerOneRun ==
    /\ [](/\ BagCardinality(pending) - BagCardinality(clearRecalc(pending)) <= 1
          /\ heightRecalcTimeout <=> RecalcWaiting # {})
    /\ [][(heightRecalcTimeout /\ ~heightRecalcTimeout') =>
             (/\ RecalcRuns
              /\ RecalcWaiting' = {}
              /\ Fresh'
              /\ containerMinHeight' = totalHeight')]_vars

\* the timer is due and a later notification arrived during its window
C5_Witness ==
    /\ heightRecalcTimeout
    /\ RecalcDue
    /\ sinceNotify < RecalcTicks
    /\ ~Fresh

StaleCallback(t) ==
    /\ t.kind \in {"recalc", "postLoad", "thinking", "clickFrame", "settle", "scrollToMsg"}
    /\ t.tag # NoSession
    /\ t.tag # currentSessionData
Runs(t) ==
    \/ RecalcTimer(t)
    \/ PostLoadTimer(t)
    \/ ThinkingTimer(t)
    \/ ClickFrame(t)
    \/ ClickSettle(t)
    \/ ScrollToMsgTimer(t)

\* C7 as stated: a callback started under the previous session leaves the height
\* cache, the offset table, the visible window, the selection and the minimap alone
C7_StaleCallbacksAreNoOps ==
    [][\A t \in BagToSet(pending) :
          (StaleCallback(t) /\ Runs(t)) =>
              (/\ UNCHANGED <<messageHeights, messageOffsets, totalHeight, visibleRange,
                              selectedMessageIndex, canvas, viewportInd>>
               /\ ~painted')]_vars

\* the gate of C8, against the last paint by any caller
PaintGate(total, measuredCount) ==
    shouldRenderMinimap(total, measuredCount, canvas.height, canvas.count)

\* C8 as stated: outside a minimap click the scheduled run repaints exactly when
\* the total height moved by more than 5% or more than 10 ids were measured since
\* the last paint of the minimap by any caller
C8_RepaintsOnSignificantChange ==
    [][(RecalcRuns /\ ~minimapClickInProgress) =>
          (painted' <=> PaintGate(totalHeight', Cardinality(DOMAIN messageHeights')))]_vars

\* the viewport indicator shows the current scroll state
IndicatorCurrent ==
    viewportInd = updateMinimapViewport(State, scrollTop, ViewportHeight).viewportInd

\* C9: during a minimap click the scheduled run never paints; when its gate says a
\* repaint is needed it records it, it leaves lastMinimapHeight and
\* lastMeasuredCount alone, and it still updates the viewport indicator
C9_NoRepaintDuringClick ==
    [][(RecalcRuns /\ minimapClickInProgress) =>
          (/\ ~painted'
           /\ UNCHANGED <<canvas, lastMinimapHeight, lastMeasuredCount>>
           /\ minimapNeedsRender' =
                 (\/ minimapNeedsRender
                  \/ shouldRenderMinimap(totalHeight', Cardinality(DOMAIN messageHeights'),
                                         lastMinimapHeight, lastMeasuredCount))
           /\ IndicatorCurrent')]_vars

\* a run during a click recorded a repaint and moved the indicator
C9_Witness ==
    /\ minimapClickInProgress
    /\ minimapNeedsRender
    /\ ~heightRecalcTimeout
    /\ lastMinimapHeight # totalHeight
    /\ viewportInd.total = totalHeight
    /\ viewportInd.top = scrollTop

\* the minimap shows the current table
MinimapCurrent == canvas = renderMinimap(State).canvas

\* C10: a recorded repaint is kept until a settle callback applies it: while it is
\* recorded the interaction is in progress with a frame or settle callback waiting,
\* the step that clears the record is a settle callback that ends the interaction
\* and repaints the minimap, and the interaction always ends
C10_DeferredRepaintApplied ==
    /\ [](minimapNeedsRender =>
             (/\ minimapClickInProgress
              /\ Waiting("clickFrame") \cup Waiting("settle") # {}))
    /\ [][(minimapNeedsRender /\ ~minimapNeedsRender') =>
             (/\ \E t \in BagToSet(pending) : ClickSettle(t)
              /\ ~minimapClickInProgress'
              /\ MinimapCurrent'
              /\ lastMinimapHeight' = totalHeight'
              /\ lastMeasuredCount' = Cardinality(DOMAIN messageHeights'))]_vars
    /\ (minimapClickInProgress ~> ~minimapClickInProgress)

\* a repaint is recorded and the settle callback of the click waits
C10_Witness ==
    /\ minimapNeedsRender
    /\ minimapClickInProgress
    /\ Waiting("settle") # {}
    /\ ~MinimapCurrent

\* the ids of the visible window, clamped to the sequence as the renderer clamps it
WindowIds ==
    LET n == Len(allMessages)
        start == Max(0, Min(visibleRange.start, n))
        end == Max(start, Min(visibleRange.end, n))
    IN {allMessages[i] : i \in (start + 1)..end}

\* the window is in the document and every rendered message measures as cached
AlreadyRendered ==
    /\ hasView
    /\ Len(allMessages) > 0
    /\ domMessages = WindowIds
    /\ \A id \in domMessages :
          RealHeight(id, showThinking) > 0 =>
              (id \in DOMAIN messageHeights
               /\ messageHeights[id] = RealHeight(id, showThinking))

\* C11: rendering a window that is already rendered, with every rendered message
\* measuring what the cache holds, changes no cache entry and schedules nothing:
\* for renderVisibleMessages on any such state, and for every frame of a minimap
\* click that resolves the window it already shows
C11_RerenderIdempotent ==
    /\ [](AlreadyRendered =>
             LET r == renderVisibleMessages(State)
             IN /\ r.messageHeights = messageHeights
                /\ r.pending = pending
                /\ r.heightRecalcTimeout = heightRecalcTimeout
                /\ r.domMessages = domMessages)
    /\ [][((\E t \in BagToSet(pending) : ClickFrame(t))
            /\ AlreadyRendered
            /\ getVisibleRange(State, scrollTop, ViewportHeight) = visibleRange) =>
             (/\ messageHeights' = messageHeights
              /\ RecalcWaiting' = RecalcWaiting
              /\ heightRecalcTimeout' = heightRecalcTimeout)]_vars

\* a click frame is about to render again the measured window the document shows
C11_Witness ==
    /\ AlreadyRendered
    /\ Waiting("clickFrame") # {}
    /\ getVisibleRange(State, scrollTop, ViewportHeight) = visibleRange
    /\ DOMAIN messageHeights # {}
    /\ ~heightRecalcTimeout

\* C12: the render never recomputes the table: for renderVisibleMessages on any
\* reachable state, with the window it shows or the one the scroll position resolves
\* to, and for every scroll frame and click frame, messageOffsets and totalHeight
\* stay as they are; a changed cache leaves a recalculation timer waiting, an
\* unchanged cache leaves the waiting callbacks as they were
C12_RenderDefersRecalc ==
    /\ [](\A range \in {visibleRange, getVisibleRange(State, scrollTop, ViewportHeight)} :
             LET r == renderVisibleMessages([State EXCEPT !.visibleRange = range])
             IN /\ r.messageOffsets = messageOffsets
                /\ r.totalHeight = totalHeight
                /\ r.messageHeights # messageHeights =>
                      (/\ r.heightRecalcTimeout
                       /\ \E t \in BagToSet(r.pending) : t.kind = "recalc")
                /\ r.messageHeights = messageHeights => r.pending = pending)
    /\ [][(ScrollFrame \/ \E t \in BagToSet(pending) : ClickFrame(t)) =>
             (/\ UNCHANGED <<messageOffsets, totalHeight>>
              /\ messageHeights' # messageHeights =>
                    (heightRecalcTimeout' /\ RecalcWaiting' # {})
              /\ messageHeights' = messageHeights => RecalcWaiting' = RecalcWaiting)]_vars

\* a scroll frame rendered a window and measured it: the table is still the one
\* computed before the measurement, and the recalculation waits
C12_Witness ==
    /\ ~Fresh
    /\ RecalcWaiting # {}
    /\ Waiting("thinking") = {}
    /\ scrollTop > 0
    /\ ~scrollRaf
    /\ domMessages = WindowIds
    /\ \A id \in domMessages :
          RealHeight(id, showThinking) > 0 =>
              (id \in DOMAIN messageHeights
               /\ messageHeights[id] = RealHeight(id, showThinking))

\* the steps that run renderSession
Loaded ==
    \/ \E f \in BagToSet(pending) : FetchResolved(f)
    \/ ToggleSort /\ currentSessionData # NoSession
    \/ \E t \in BagToSet(pending) : WatchFetched(t)

\* the table of n messages that all have the estimated height
Estimates(n) == [i \in 1..n |-> (i - 1) * (ESTIMATED_HEIGHT + GAP)]

\* C13: every step that runs renderSession leaves the table computed from
\* estimates alone (offset[i] = i * 96), the window resolved at the top from that
\* table, and a cache that holds nothing but what the first render of the new
\* sequence measured
C13_LoadedResetsOffsetModel ==
    [][Loaded =>
          LET n == Len(allMessages')
              fromEstimates == [allMessages |-> allMessages', messageHeights |-> EmptyMap,
                                messageOffsets |-> Estimates(n)]
          IN /\ messageOffsets' = Estimates(n)
             /\ totalHeight' = IF n = 0 THEN 0 ELSE n * (ESTIMATED_HEIGHT + GAP) - GAP
             /\ visibleRange' = getVisibleRange(fromEstimates, 0, ViewportHeight)
             /\ domMessages' =
                   {allMessages'[i] : i \in (visibleRange'.start + 1)..visibleRange'.end}
             /\ \A id \in DOMAIN messageHeights' :
                   /\ id \in domMessages'
                   /\ messageHeights'[id] = RealHeight(id, showThinking')]_vars

\* a session was rendered while the post-load timer of another session, whose
\* messages had been measured, still waits: the table is the one of estimates
C13_Witness ==
    /\ Len(allMessages) > 0
    /\ messageOffsets = Estimates(Len(allMessages))
    /\ DOMAIN messageHeights # {}
    /\ \E t \in Waiting("postLoad") : t.tag # currentSessionData /\ SessionLen(t.tag) > 0
    /\ \E t \in Waiting("postLoad") : t.tag = currentSessionData

\* C14: a sort toggle with a session open reverses the sequence and leaves the
\* table computed from estimates alone and a cache that holds only what the render
\* of the reversed sequence measured; a second toggle gives the original order
C14_ToggleSortReverses ==
    [][(ToggleSort /\ currentSessionData # NoSession) =>
          (/\ sortNewestFirst' = ~sortNewestFirst
           /\ allMessages' = Reverse(allMessages)
           /\ messageOffsets' = Estimates(Len(allMessages))
           /\ \A id \in DOMAIN messageHeights' :
                 /\ id \in domMessages'
                 /\ messageHeights'[id] = RealHeight(id, showThinking)
           /\ toggleSort(toggleSort(State)).allMessages = allMessages
           /\ toggleSort(toggleSort(State)).sortNewestFirst = sortNewestFirst)]_vars

\* the one event of the run was a sort toggle on the rendered first session
C14_Witness ==
    /\ events = 1
    /\ ~sortNewestFirst
    /\ Len(allMessages) > 1
    /\ allMessages = BackendMessages(currentSessionData)
    /\ Copies(pending, Callback("postLoad", currentSessionData, 0)) = 2
    /\ messageOffsets = Estimates(Len(allMessages))

\* the band of message index (0-based) lies fully inside the viewport
BandInView(index) ==
    /\ messageOffsets[index + 1] >= scrollTop
    /\ messageOffsets[index + 1] + CachedOrEstimate(messageHeights, allMessages[index + 1])
          <= scrollTop + ViewportHeight

\* where content.scrollTo({top}) ends up: the browser keeps it within the extent
Landing(top) == Min(top, ScrollMax(State))

\* C15: selectMessage leaves the scroll position alone when the band of the target
\* lies fully inside the viewport, and otherwise scrolls to max(0, offset - 100):
\* for selectMessage on any reachable state and any index, and for every step that
\* moves the selection
C15_SelectScrollsWhenOutside ==
    /\ [](\A i \in -1..Len(allMessages) :
             Len(allMessages) > 0 =>
                LET index == Max(0, Min(i, Len(allMessages) - 1))
                    r == selectMessage(State, i)
                IN /\ r.selectedMessageIndex = index
                   /\ BandInView(index) => r.scrollTop = scrollTop
                   /\ ~BandInView(index) =>
                         r.scrollTop =
                             Landing(Max(0, messageOffsets[index + 1] - SelectMargin)))
    /\ [][(selectedMessageIndex' # selectedMessageIndex /\ selectedMessageIndex' >= 0) =>
             (scrollTop' =
                 IF BandInView(selectedMessageIndex') THEN scrollTop
                 ELSE Landing(Max(0, messageOffsets[selectedMessageIndex' + 1]
                                        - SelectMargin)))]_vars

\* a message below the viewport was selected and the view scrolled to 100 above it
C15_Witness ==
    /\ selectedMessageIndex > 0
    /\ scrollTop > 0
    /\ scrollTop = messageOffsets[selectedMessageIndex + 1] - SelectMargin
    /\ scrollTop < ScrollMax(State)
    /\ scrollRaf

\* a step that installs a message sequence: a resolved load, a sort toggle with a
\* session open, a live update of the watcher
InstallsMessages ==
    \/ \E f \in Waiting("fetch") : FetchResolved(f)
    \/ ToggleSort /\ currentSessionData # NoSession
    \/ \E t \in Waiting("watchFetch") : WatchFetched(t)

\* C16: the selection is -1 or an index of the current message sequence; selecting
\* clamps into the sequence, and every step that installs or changes the message
\* sequence clears the selection
C16_SelectionInRange ==
    /\ [](/\ selectedMessageIndex \in -1..(Len(allMessages) - 1)
          /\ \A i \in -2..(Len(allMessages) + 1) :
                Len(allMessages) > 0 =>
                   /\ selectMessage(State, i).selectedMessageIndex
                         \in 0..(Len(allMessages) - 1)
                   /\ i \in 0..(Len(allMessages) - 1) =>
                         selectMessage(State, i).selectedMessageIndex = i)
    /\ [][(InstallsMessages \/ allMessages' # allMessages) =>
             selectedMessageIndex' = -1]_vars

\* a message was selected, which scrolled the view to 100 above it, and the sort
\* toggle that followed cleared the selection
C16_Witness ==
    /\ events = 2
    /\ selectedMessageIndex = -1
    /\ ~sortNewestFirst
    /\ Len(allMessages) > 2
    /\ scrollTop = messageOffsets[3] - SelectMargin
    /\ scrollTop > 0
    /\ scrollRaf

\* what the engine shows and computes from
engineState ==
    <<allMessages, messageHeights, messageOffsets, totalHeight, visibleRange,
      selectedMessageIndex, currentSessionData, hasView, domMessages, spacers,
      containerMinHeight, scrollTop>>

\* C17: a load whose fetch rejects leaves the engine as it was before the load was
\* attempted: neither the call of loadSession up to its await nor the rejection
\* changes the messages, the cache, the table, totalHeight, the window, the
\* selection or the displayed session data, and the rejection requests no fetch
C17_FailedLoadKeepsState ==
    /\ [][(\E id \in Sessions : \E m \in Targets(id) : LoadSession(id, m)) =>
             UNCHANGED engineState]_vars
    /\ [][\A f \in Waiting("fetch") :
             FetchRejected(f) =>
                /\ UNCHANGED engineState
                /\ pending' = Remove(pending, f)
                /\ \A k \in {"fetch", "watchFetch"} :
                      {c \in BagToSet(pending') : c.kind = k} \subseteq BagToSet(pending)]_vars

\* a session is shown with a message selected, and the load of another session
\* ended without data: the shown data are still those of the first
C17_Witness ==
    /\ events = 2
    /\ currentSessionData = FirstSession
    /\ currentSession # currentSessionData
    /\ Waiting("fetch") = {}
    /\ selectedMessageIndex >= 0
    /\ allMessages = Reverse(BackendMessages(FirstSession))
    /\ domMessages # {}

\* the frame callbacks of handleScroll that wait, counted with multiplicity
FramesWaiting ==
    LET RECURSIVE Sum(_)
        Sum(S) == IF S = {} THEN 0
                  ELSE LET t == CHOOSE x \in S : TRUE
                       IN Copies(pending, t) + Sum(S \ {t})
    IN Sum(Waiting("scrollFrame"))

\* C18: at most one frame callback of the scroll handler waits at any time; a scroll
\* event that arrives while one waits requests nothing; the callback resolves the
\* window from the scroll position of the moment it runs, and renders again only
\* when that window differs from visibleRange
C18_ScrollThrottled ==
    /\ [](/\ FramesWaiting <= 1
          /\ scrollRaf <=> FramesWaiting = 1)
    /\ [][\A pos \in ScrollStops :
             (Scroll(pos) /\ scrollRaf) => (pending' = pending /\ scrollTop' = pos)]_vars
    /\ [][ScrollFrame =>
             LET newRange == getVisibleRange(State, scrollTop, ViewportHeight)
             IN /\ visibleRange' = newRange
                /\ ~scrollRaf'
                /\ FramesWaiting' = 0
                /\ newRange = visibleRange =>
                      UNCHANGED <<domMessages, messageHeights, spacers, messageOffsets,
                                  totalHeight, scrollTop>>
                /\ newRange # visibleRange =>
                      /\ domMessages' = WindowIds'
                      /\ spacers'.top = topSpacer(State, Max(0, newRange.start))]_vars

\* a selection scrolled the view and requested a frame, a scroll to the end arrived
\* before the frame ran, and the one frame resolved the window at the end
C18_Witness ==
    /\ events = 2
    /\ selectedMessageIndex >= 0
    /\ scrollTop = ScrollMax(State)
    /\ scrollTop > 0
    /\ ~scrollRaf
    /\ visibleRange = getVisibleRange(State, scrollTop, ViewportHeight)
    /\ visibleRange.start > 0

\* the scenario's sequence: 3 messages, the second one measured as 40, the first
\* and the third at 80 (measured as 80 or not measured)
SecondMeasured40 ==
    /\ Len(allMessages) = 3
    /\ allMessages[2] \in DOMAIN messageHeights
    /\ messageHeights[allMessages[2]] = 40
    /\ CachedOrEstimate(messageHeights, allMessages[1]) = ESTIMATED_HEIGHT
    /\ CachedOrEstimate(messageHeights, allMessages[3]) = ESTIMATED_HEIGHT

\* the same with the first message as the measured one
FirstMeasured40 ==
    /\ Len(allMessages) = 3
    /\ allMessages[1] \in DOMAIN messageHeights
    /\ messageHeights[allMessages[1]] = 40
    /\ CachedOrEstimate(messageHeights, allMessages[2]) = ESTIMATED_HEIGHT
    /\ CachedOrEstimate(messageHeights, allMessages[3]) = ESTIMATED_HEIGHT

\* C19 as stated: with message 2 of 3 measured as 40, recomputing gives the offsets
\* [0, 56, 152] and totalHeight 232
C19_AsStated ==
    SecondMeasured40 =>
        /\ Recomputed.messageOffsets = <<0, 56, 152>>
        /\ Recomputed.totalHeight = 232

\* C19: 3 messages at the estimate have the offsets [0, 96, 192] and totalHeight
\* 272; with the second message measured as 40, recomputing gives [0, 96, 152] and
\* 232: the measured message keeps its offset and only the messages after it move
\* up by 40; [0, 56, 152] is the table when the first message is the one measured
C19_ScenarioOffsets ==
    /\ [](/\ SecondMeasured40 =>
                /\ Recomputed.messageOffsets = <<0, 96, 152>>
                /\ Recomputed.totalHeight = 232
          /\ FirstMeasured40 =>
                /\ Recomputed.messageOffsets = <<0, 56, 152>>
                /\ Recomputed.totalHeight = 232)
    /\ [][(Loaded /\ Len(allMessages') = 3) =>
             (messageOffsets' = <<0, 96, 192>> /\ totalHeight' = 272)]_vars

\* the second of 3 messages is measured as 40 and the table has been recomputed
C19_Witness ==
    /\ SecondMeasured40
    /\ messageOffsets = <<0, 96, 152>>
    /\ totalHeight = 232
    /\ containerMinHeight = 232

\* the render range of state s, clamped to its sequence (0-based, end exclusive)
ClampedStart(s) == Max(0, Min(s.visibleRange.start, Len(s.allMessages)))
ClampedEnd(s) == Max(ClampedStart(s), Min(s.visibleRange.end, Len(s.allMessages)))
RendersItems(s) == s.hasView /\ ClampedStart(s) < ClampedEnd(s)

\* the spacers of the specification for the range [start, end) on state s
LeadingOf(s, start) == IF start = 0 THEN 0 ELSE s.messageOffsets[start + 1]
TrailingOf(s, end) ==
    Max(0, s.totalHeight
             - (s.messageOffsets[end]
                  + CachedOrEstimate(s.messageHeights, s.allMessages[end]) + GAP))

\* heights of the messages start..end-1 with one GAP between neighbours
RECURSIVE ExtentOf(_, _, _)
ExtentOf(s, start, end) ==
    IF start >= end THEN 0
    ELSE CachedOrEstimate(s.messageHeights, s.allMessages[start + 1])
           + (IF start + 1 < end THEN GAP ELSE 0)
           + ExtentOf(s, start + 1, end)

\* the states renderVisibleMessages is called on: the reachable states, and those
\* of a scroll frame or a minimap click that has stored another window
RenderInputs ==
    {State}
      \cup {[State EXCEPT !.visibleRange = getVisibleRange(State, pos, ViewportHeight)] :
               pos \in ScrollStops}

\* the state a frame callback renders: the window of the current scroll position
AtFrame == [State EXCEPT !.visibleRange = getVisibleRange(State, scrollTop, ViewportHeight)]

\* a step whose frame callback calls renderVisibleMessages with items to render
FrameRenders ==
    /\ RendersItems(AtFrame)
    /\ \/ \E t \in Waiting("clickFrame") : ClickFrame(t)
       \/ ScrollFrame /\ AtFrame.visibleRange # visibleRange

\* C20 as stated: every render uses the leading spacer offset[start] (0 at start 0)
\* and the trailing spacer max(0, totalHeight - (offset[end-1] + height(end-1) + GAP))
C20_AsStated ==
    [][FrameRenders =>
          /\ spacers'.top = LeadingOf(AtFrame, ClampedStart(AtFrame))
          /\ spacers'.bottom = TrailingOf(AtFrame, ClampedEnd(AtFrame))]_vars

\* the spacers of renderVisibleMessages on state s: the trailing one follows the
\* formula when messages remain after the range and is 0 when the range ends the
\* sequence; the sum reproduces totalHeight when the table is consistent
SpacersAsRendered(s, sp) ==
    LET start == ClampedStart(s)
        end == ClampedEnd(s)
        n == Len(s.allMessages)
    IN /\ sp.top = LeadingOf(s, start)
       /\ sp.bottom = IF end < n THEN TrailingOf(s, end) ELSE 0
       /\ Fresh =>
             /\ sp.bottom = TrailingOf(s, end)
             /\ sp.top + ExtentOf(s, start, end) + (IF end < n THEN GAP ELSE 0) + sp.bottom
                   = s.totalHeight

\* C20: for a render range [start, end) clamped to the sequence the leading spacer
\* is offset[start] (0 at start 0); the trailing spacer is
\* max(0, totalHeight - (offset[end-1] + height(end-1) + GAP)) when end < len and 0
\* when end = len; with a consistent table both agree with the formula and leading
\* spacer + extent of the items + (one GAP if end < len) + trailing spacer is
\* totalHeight
C20_SpacersReproduceGeometry ==
    /\ [](\A s \in RenderInputs :
             RendersItems(s) => SpacersAsRendered(s, renderVisibleMessages(s).spacers))
    /\ [][FrameRenders => SpacersAsRendered(AtFrame, spacers')]_vars

\* the first two of four messages are rendered on a consistent table: no leading
\* spacer, and the trailing spacer stands for the two messages after the range
C20_Witness ==
    /\ Fresh
    /\ domMessages = WindowIds
    /\ ClampedEnd(State) < Len(allMessages)
    /\ spacers.bottom > 0
    /\ spacers.bottom = TrailingOf(State, ClampedEnd(State))
    /\ spacers.top + ExtentOf(State, ClampedStart(State), ClampedEnd(State)) + GAP
          + spacers.bottom = totalHeight

\* the index next (direction 1) or previous (direction -1) is to select
NavigationTarget(direction) ==
    LET n == Len(allMessages)
    IN IF selectedMessageIndex = -1
       THEN (IF direction > 0 THEN 0 ELSE n - 1)
       ELSE (IF direction > 0 THEN Min(selectedMessageIndex + 1, n - 1)
                              ELSE Max(selectedMessageIndex - 1, 0))

\* C21: next selects min(i + 1, len - 1) and previous max(i - 1, 0) from a selection
\* i; without a selection next selects 0 and previous len - 1; the selecting is
\* selectMessage's; on an empty sequence navigation changes nothing
C21_NavigationIsIndexArithmetic ==
    /\ [](\A d \in {-1, 1} :
             IF Len(allMessages) = 0
             THEN navigateMessages(State, d) = State
             ELSE /\ navigateMessages(State, d).selectedMessageIndex = NavigationTarget(d)
                  /\ navigateMessages(State, d) = selectMessage(State, NavigationTarget(d)))
    /\ [][\A d \in {-1, 1} :
             NavigateMessages(d) =>
                IF Len(allMessages) = 0
                THEN UNCHANGED <<selectedMessageIndex, scrollTop, pending, allMessages>>
                ELSE selectedMessageIndex' = NavigationTarget(d)]_vars

\* previous was pressed without a selection on a recomputed table: the last message
\* is selected and the view scrolled to 100 above it
C21_Witness ==
    /\ events = 1
    /\ Len(allMessages) > 1
    /\ selectedMessageIndex = Len(allMessages) - 1
    /\ Fresh
    /\ messageOffsets[Len(allMessages)] > ViewportHeight
    /\ scrollTop = messageOffsets[Len(allMessages)] - SelectMargin
    /\ scrollRaf

ThinkingRuns == \E t \in BagToSet(pending) : ThinkingTimer(t)

\* C22: drift is always corrected: a table that differs from what the current cache
\* gives is eventually consistent with the cache again; the run that corrects it
\* computes the table from the cache of the moment it runs, and leaves the table
\* and totalHeight consistent with the cache
C22_DriftCorrected ==
    /\ [][RecalcRuns =>
             (/\ messageOffsets' = calculateOffsets(State).messageOffsets
              /\ totalHeight' = calculateOffsets(State).totalHeight
              /\ messageHeights' = messageHeights
              /\ Fresh')]_vars
    /\ [][ThinkingRuns => Fresh']_vars
    /\ (~Fresh ~> Fresh)

\* measured heights moved the table away from the estimates, and no recalculation
\* is waiting any more
C22_Witness ==
    /\ Fresh
    /\ Len(allMessages) > 0
    /\ messageOffsets # Estimates(Len(allMessages))
    /\ DOMAIN messageHeights # {}
    /\ RecalcWaiting = {}
    /\ Waiting("thinking") = {}
    /\ Waiting("postLoad") # {}

\* C23: a settle timer of an earlier minimap click never clears
\* minimapClickInProgress while the settle window of a later click is open: when a
\* settle timer runs that minimapClickTimeout does not refer to, and the timer it
\* refers to still waits, the flag stays true
C23_EarlierSettleNeverClears ==
    [][\A t \in Waiting("settle") :
          (/\ ~IsHeld(t)
           /\ \E u \in Waiting("settle") : IsHeld(u)
           /\ minimapClickInProgress
           /\ ClickSettle(t)) => minimapClickInProgress']_vars

\* C24: when loads overlap, the display and the watcher belong to currentSession
\* once every fetch has completed, in whatever order the fetches resolve: a fetch
\* that resolves last, while the data of currentSession are shown, leaves the shown
\* data, the message sequence and the watcher those of currentSession
C24_DisplayFollowsCurrentSession ==
    [][\A f \in Waiting("fetch") :
          (/\ currentSessionData = currentSession
           /\ FetchResolved(f)
           /\ Waiting("fetch")' = {}) =>
              (/\ currentSessionData' = currentSession'
               /\ allMessages' \in {BackendMessages(currentSession'),
                                     Reverse(BackendMessages(currentSession'))}
               /\ watchInterval' = currentSession')]_vars

\* C25: a poll started for a session takes effect only while that session is the
\* current one: when the fetch of a poll resolves after the user has switched to
\* another session whose data are shown, the shown data and the message sequence
\* stay as they are
C25_PollOnlyForCurrentSession ==
    [][\A t \in Waiting("watchFetch") :
          (/\ currentSession # t.tag
           /\ currentSessionData = currentSession
           /\ WatchFetched(t)) =>
              (/\ currentSessionData' = currentSessionData
               /\ allMessages' = allMessages)]_vars

\* scroll positions and viewport heights getVisibleRange is probed with: around
\* every edge of a message, at the current position, far past the end of the
\* content, and with a viewport of no height, of the configured and of a large one
FarPast == 4 * BUFFER_PX
RangeProbes ==
    ProbePositions(allMessages, messageOffsets, messageHeights)
      \cup {scrollTop, totalHeight + FarPast}
ViewportProbes == {0, ViewportHeight, DefaultViewport}

WellFormed(r) ==
    IF Len(allMessages) = 0
    THEN r = [start |-> 0, end |-> 0]
    ELSE 0 <= r.start /\ r.start < r.end /\ r.end <= Len(allMessages)

\* C26: getVisibleRange returns {0, 0} for an empty sequence and otherwise a range
\* with 0 <= start < end <= len, for every scroll position and viewport height from
\* 0 up; the window a scroll frame stores is such a range
C26_RangeWellFormed ==
    /\ [](\A pos \in RangeProbes : \A vh \in ViewportProbes :
             WellFormed(getVisibleRange(State, pos, vh)))
    /\ [][ScrollFrame => WellFormed(visibleRange')]_vars

\* the view is scrolled past every message and the frame resolved the window to
\* the last message alone
C26_Witness ==
    /\ ~scrollRaf
    /\ Len(allMessages) > 1
    /\ scrollTop - BUFFER_PX > totalHeight
    /\ visibleRange = [start |-> Len(allMessages) - 1, end |-> Len(allMessages)]

\* C27: between any two events the offset table has one entry per message of the
\* current sequence, and every step that installs a sequence, toggles the content
\* visibility or recomputes the table leaves it so
C27_TableMatchesSequence ==
    /\ [](/\ Len(messageOffsets) = Len(allMessages)
          /\ Len(calculateOffsets(State).messageOffsets) = Len(allMessages))
    /\ [][(InstallsMessages \/ ToggleThinking \/ ThinkingRuns \/ RecalcRuns) =>
             Len(messageOffsets') = Len(allMessages')]_vars

\* a session of 3 messages replaced one of 4 whose post-load timer still waits
C27_Witness ==
    /\ currentSessionData # FirstSession
    /\ Len(allMessages) = SessionLen(FirstSession) - 1
    /\ Len(messageOffsets) = Len(allMessages)
    /\ Copies(pending, Callback("postLoad", FirstSession, 0)) > 0
    /\ DOMAIN messageHeights # {}

====
